---- MODULE Spec2Model ----
(***************************************************************************)
(* Model of the real-time room broadcast fabric of                         *)
(* server/scripts/runtime/websocket_server.py: MusicRoomProtocol (one per *)
(* WebSocket connection) and MusicRoomFactory (the hub), together with the *)
(* control-plane calls of server/routers/rooms.py that reach the hub.      *)
(*                                                                         *)
(* Scheduling is asyncio's: handlers run to their next await without       *)
(* interruption; coroutines started with asyncio.create_task wait in the   *)
(* loop's FIFO ready queue (tasks); socket events, timers and HTTP         *)
(* requests interleave freely with them.                                   *)
(*                                                                         *)
(* Time is a discrete clock (now).  One unit is half a coalesce window.    *)
(***************************************************************************)
EXTENDS Integers, Sequences, FiniteSets, TLC

VARIABLES
    proto,           \* Sess -> the fields of one MusicRoomProtocol
    connections,     \* factory.connections: user_id -> protocol (None: no key)
    rooms,           \* factory.rooms: room_id -> set of user_ids (DOMAIN: the keys)
    message_queues,  \* factory.message_queues: dict in insertion order, room_id -> list
    tasks,           \* the event loop's ready queue of created tasks (FIFO)
    dbwait,          \* handle_join_room coroutines suspended in the database lookup
    wire,            \* Sess -> the frames written to the socket, in order
    now,             \* time.monotonic()
    cfg,             \* environment configuration read by MusicRoomFactory.__init__
    nmsg,            \* number of broadcast messages created so far (payload identity)
    nops,            \* number of client messages received so far
    ev,              \* history: what the last step did (kind, enqueue targets, ...)
    db,              \* the committed rows of the tables room and roomparticipant
    reqs             \* the HTTP requests in flight, each with its own database session

vars == <<proto, connections, rooms, message_queues, tasks, dbwait, wire, now,
          cfg, nmsg, nops, ev, db, reqs>>

(***************************************************************************)
(* Bounds of the model.                                                    *)
(***************************************************************************)
MaxMsgs == 2         \* broadcasts created in one behaviour of the hub
MaxMsgsQ == 3        \* broadcasts created in one behaviour of one session
MaxOps == 3          \* client messages received in one behaviour
MaxTasks == 2        \* length of the ready queue
MaxTime == 6         \* the clock stops here
QueueMax == 2        \* WS_SEND_QUEUE_MAX of the runs explored (>= 1)
MaxPage == 3         \* the largest page number a request asks for
MaxReqs == 4         \* HTTP requests received in one behaviour

Sess == {"s1", "s2"}
Users == {"u1", "u2"}
Rooms == {"r1", "r2"}
None == "none"
Tokens == Users \cup {None, "bad"}

\* WS_COALESCE_WINDOW_MS, in clock units
CoalesceWindow == 2
coalesce_types == {"page_updated", "song_updated"}
non_batchable_types == {"critical_update", "song_updated", "page_updated"}
BatchedTypes == {"participant_joined", "participant_left", "room_closed"}

(***************************************************************************)
(* Messages.  One record shape for every message:                          *)
(*   type, uid (user_id field), room (room_id field), id (stands for the   *)
(*   payload: distinct per broadcast), msgs (data.messages of a            *)
(*   batched_update).                                                      *)
(* History fields, read by no operation:                                   *)
(*   gx  the exclude argument of the Broadcast that carried the message,   *)
(*   gm  the sessions that were members when that Broadcast ran,           *)
(*   seq the position at which the session accepted it (enqueue_message),  *)
(*   win the coalesce window of the session in which it was accepted.      *)
(***************************************************************************)
Msg(type, uid, room, id) ==
    [type |-> type, uid |-> uid, room |-> room, id |-> id, msgs |-> <<>>,
     gx |-> None, gm |-> {}, seq |-> 0, win |-> 0, page |-> 0]

BatchedUpdate(messages) ==
    [type |-> "batched_update", uid |-> None, room |-> None, id |-> 0,
     msgs |-> messages, gx |-> None, gm |-> {}, seq |-> 0, win |-> 0,
     page |-> 0]

\* The broadcast messages a frame or queue entry carries.
Inner(m) == IF m.type = "batched_update"
            THEN {m.msgs[i] : i \in 1..Len(m.msgs)} ELSE {m}

NoEv == [kind |-> "none", s |-> None, room |-> None, id |-> 0,
         others |-> {}, targets |-> {}, sends |-> {},
         op |-> "none", uid |-> None, page |-> 0, status |-> 0]

\* The HTTP requests that can be in flight together, the songs of the
\* catalogue with Song.page_count, and the pages a client may ask for
Reqs == {"q1", "q2"}
Songs == {"a", "b"}
page_count(song) == IF song = "a" THEN 1 ELSE 2
Pages == 1..MaxPage

\* A request slot with no request in it.  seen: the rows the request's
\* session has read (the Room object of its identity map, the host's rooms)
NoReq == [op |-> "none", uid |-> None, room |-> None,
          page |-> 0, cur_page |-> 0, seen |-> {}, close |-> FALSE]

(***************************************************************************)
(* A protocol object before onConnect.                                     *)
(***************************************************************************)
NewProtocol ==
    [state |-> "idle",          \* idle | open | closing | closed (the socket)
     onopen |-> "none",         \* none | scheduled | done (the onOpen task)
     auth_token |-> None,
     user_id |-> None,
     room_id |-> None,
     queue_init |-> FALSE,      \* _init_send_queue has run
     send_queue |-> <<>>,
     coalesce_until |-> 0,
     coalesce_latest |-> <<>>,  \* dict in insertion order: <<[type, msg], ...>>
     coalesce_task |-> "none",  \* none | pending | done
     coalesce_wake |-> 0,       \* when the pending flush's sleep ends
     dropped_count |-> 0,
     closed |-> FALSE,          \* _closed
     close_code |-> 0,          \* code of the close frame sent (0: none sent)
     writer |-> "none",         \* none | running | cancelled | failed
     nacc |-> 0,                \* history: messages accepted so far
     window |-> 0,              \* history: coalesce windows started so far
     cur |-> [t \in coalesce_types |-> 0],
                                \* history: seq of the last message of each type
                                \* accepted in the current window
     authn |-> 0]               \* history: rank of its authentication (0: none)

(***************************************************************************)
(* MusicRoomProtocol: the outbound queue, coalescing and the drop policy.  *)
(***************************************************************************)
\* Mutant of Full: the queue built without its maxsize is never full
FullUnbounded(q) == FALSE

\* asyncio.Queue(maxsize).full(): never full when maxsize <= 0
Full(q) == QueueMax > 0 /\ Len(q) >= QueueMax

\* Mutant of SendCloseCode: the close frame carries the default code
SendCloseDefault(p, code) ==
    IF p.state = "open"
    THEN [p EXCEPT !.state = "closing", !.close_code = 1000]
    ELSE p

\* sendClose(code): starts the closing handshake of an open socket
SendCloseCode(p, code) ==
    IF p.state = "open"
    THEN [p EXCEPT !.state = "closing", !.close_code = code]
    ELSE p

\* sendClose of _maybe_disconnect_for_drops
SendClose(p) == SendCloseCode(p, 4002)

MaybeDisconnectForDrops(p) ==
    IF cfg.ws_slow_client_disconnect_after_drops # 0
       /\ p.dropped_count >= cfg.ws_slow_client_disconnect_after_drops
    THEN SendClose(p)
    ELSE p

\* Mutant of PutNowait: the payload is put at the head of the queue
PutNowaitFront(p, m) ==
    IF Full(p.send_queue)
    THEN MaybeDisconnectForDrops([p EXCEPT !.dropped_count = @ + 1])
    ELSE [p EXCEPT !.send_queue = <<m>> \o @]

\* put_nowait with its QueueFull handler
PutNowait(p, m) ==
    IF Full(p.send_queue)
    THEN MaybeDisconnectForDrops([p EXCEPT !.dropped_count = @ + 1])
    ELSE [p EXCEPT !.send_queue = Append(@, m)]

\* Mutant of GetNowait: the newest payload is removed instead of the head
GetNowaitLast(q) == SubSeq(q, 1, Len(q) - 1)

\* get_nowait: removes the head of the queue
GetNowait(q) == Tail(q)

\* d[k] = v on a dict kept in insertion order: an existing key keeps its place
DictPut(d, m) ==
    IF \E i \in 1..Len(d) : d[i].type = m.type
    THEN [i \in 1..Len(d) |-> IF d[i].type = m.type THEN m ELSE d[i]]
    ELSE Append(d, m)

\* The window test of enqueue_message: the window has expired
WindowExpired(p) == now >= p.coalesce_until

\* Mutant of enqueue_message: the drop policy is ignored, the head is
\* always dropped
enqueue_message_oldest(p, message) ==
    LET m == [message EXCEPT !.seq = p.nacc + 1]
        pa == [p EXCEPT !.nacc = @ + 1]
        \* history of the coalescing path: the window and its last values
        mw == [m EXCEPT !.win = IF WindowExpired(p) THEN p.window + 1 ELSE p.window]
        pw == IF WindowExpired(p)
              THEN [pa EXCEPT !.window = @ + 1,
                              !.cur = [t \in coalesce_types |->
                                         IF t = m.type THEN m.seq ELSE 0]]
              ELSE [pa EXCEPT !.cur[m.type] = m.seq]
    IN  IF ~p.queue_init
        THEN p      \* no _coalesce_types attribute: caught, returns False
        ELSE IF message.type \in coalesce_types /\ CoalesceWindow > 0
        THEN LET p1 == IF WindowExpired(p)
                       THEN [pw EXCEPT
                               !.coalesce_until = now + CoalesceWindow,
                               !.coalesce_task = "pending",
                               !.coalesce_wake = IF p.coalesce_task = "pending"
                                                 THEN @ ELSE now + CoalesceWindow]
                       ELSE pw
             IN  [p1 EXCEPT !.coalesce_latest = DictPut(@, mw)]
        ELSE IF Full(p.send_queue)
        THEN IF FALSE
             THEN MaybeDisconnectForDrops([p EXCEPT !.dropped_count = @ + 1])
             ELSE PutNowait(
                    MaybeDisconnectForDrops(
                      [pa EXCEPT !.send_queue = GetNowait(@),
                                 !.dropped_count = @ + 1]), m)
        ELSE PutNowait(pa, m)

\* enqueue_message(message) on protocol p: the protocol afterwards
enqueue_message(p, message) ==
    LET m == [message EXCEPT !.seq = p.nacc + 1]
        pa == [p EXCEPT !.nacc = @ + 1]
        \* history of the coalescing path: the window and its last values
        mw == [m EXCEPT !.win = IF WindowExpired(p) THEN p.window + 1 ELSE p.window]
        pw == IF WindowExpired(p)
              THEN [pa EXCEPT !.window = @ + 1,
                              !.cur = [t \in coalesce_types |->
                                         IF t = m.type THEN m.seq ELSE 0]]
              ELSE [pa EXCEPT !.cur[m.type] = m.seq]
    IN  IF ~p.queue_init
        THEN p      \* no _coalesce_types attribute: caught, returns False
        ELSE IF message.type \in coalesce_types /\ CoalesceWindow > 0
        THEN LET p1 == IF WindowExpired(p)
                       THEN [pw EXCEPT
                               !.coalesce_until = now + CoalesceWindow,
                               !.coalesce_task = "pending",
                               !.coalesce_wake = IF p.coalesce_task = "pending"
                                                 THEN @ ELSE now + CoalesceWindow]
                       ELSE pw
             IN  [p1 EXCEPT !.coalesce_latest = DictPut(@, mw)]
        ELSE IF Full(p.send_queue)
        THEN IF cfg.ws_drop_policy = "newest"
             THEN MaybeDisconnectForDrops([p EXCEPT !.dropped_count = @ + 1])
             ELSE PutNowait(
                    MaybeDisconnectForDrops(
                      [pa EXCEPT !.send_queue = GetNowait(@),
                                 !.dropped_count = @ + 1]), m)
        ELSE PutNowait(pa, m)

\* The loop of _flush_coalesced_after over pending.items()
RECURSIVE FlushPending(_, _)
FlushPending(p, pending) ==
    IF pending = <<>> THEN p
    ELSE LET m == Head(pending)
             p1 == IF Full(p.send_queue)
                   THEN IF cfg.ws_drop_policy # "newest"
                        THEN PutNowait([p EXCEPT !.send_queue = GetNowait(@)], m)
                        ELSE MaybeDisconnectForDrops(
                               [p EXCEPT !.dropped_count = @ + 1])
                   ELSE PutNowait(p, m)
         IN  FlushPending(p1, Tail(pending))

\* Mutant of SendMessage: the frame overtakes the frames already sent
SendMessageFront(w, s, m) ==
    IF proto[s].state = "open" THEN [w EXCEPT ![s] = <<m>> \o @] ELSE w

\* sendMessage: a frame on the socket; nothing unless the socket is open
SendMessage(w, s, m) ==
    IF proto[s].state = "open" THEN [w EXCEPT ![s] = Append(@, m)] ELSE w

\* _init_send_queue
InitSendQueue(p) ==
    [p EXCEPT !.queue_init = TRUE, !.send_queue = <<>>, !.writer = "running",
              !.coalesce_until = 0, !.coalesce_latest = <<>>,
              !.coalesce_task = "none", !.dropped_count = 0, !.closed = FALSE]

\* _close_send_queue, under onClose's try/except
CloseSendQueue(p) ==
    IF p.queue_init
    THEN [p EXCEPT !.closed = TRUE,
                   !.writer = IF @ = "running" THEN "cancelled" ELSE @,
                   !.send_queue = <<>>]
    ELSE [p EXCEPT !.closed = TRUE]   \* then AttributeError, swallowed

(***************************************************************************)
(* MusicRoomFactory: the registries.                                       *)
(***************************************************************************)
\* register_connection
RegisterConnection(c, s, uid) ==
    IF uid # None THEN [c EXCEPT ![uid] = s] ELSE c

\* unregister_connection
UnregisterConnection(c, uid) ==
    IF uid # None /\ c[uid] # None THEN [c EXCEPT ![uid] = None] ELSE c

\* Mutant of join_room: the entry is created but the user is not added
JoinRoomEmpty(rs, uid, room) ==
    [r \in DOMAIN rs \cup {room} |->
        IF r = room
        THEN (IF room \in DOMAIN rs THEN rs[room] ELSE {})
        ELSE rs[r]]

\* join_room
JoinRoom(rs, uid, room) ==
    [r \in DOMAIN rs \cup {room} |->
        IF r = room
        THEN (IF room \in DOMAIN rs THEN rs[room] ELSE {}) \cup {uid}
        ELSE rs[r]]

\* Mutant of leave_room: the entry of an emptied room is kept
LeaveRoomKeepEmpty(rs, uid, room) ==
    IF room \in DOMAIN rs /\ uid \in rs[room]
    THEN [rs EXCEPT ![room] = @ \ {uid}]
    ELSE rs

\* leave_room
LeaveRoom(rs, uid, room) ==
    IF room \in DOMAIN rs /\ uid \in rs[room]
    THEN IF rs[room] \ {uid} = {}
         THEN [r \in DOMAIN rs \ {room} |-> rs[r]]
         ELSE [rs EXCEPT ![room] = @ \ {uid}]
    ELSE rs

\* Mutant of register_room: the entry is created anew on every call
RegisterRoomReset(rs, room) ==
    [r \in DOMAIN rs \cup {room} |-> IF r = room THEN {} ELSE rs[r]]

\* register_room
RegisterRoom(rs, room) ==
    IF room \notin DOMAIN rs
    THEN [r \in DOMAIN rs \cup {room} |-> IF r = room THEN {} ELSE rs[r]]
    ELSE rs

\* The test of _send_to_room_users that skips the excluded protocol
Excluded(uid, exclude) == exclude # None /\ uid = proto[exclude].user_id

\* The protocols _send_to_room_users calls enqueue_message on
SendTargets(room, exclude) ==
    IF room \notin DOMAIN rooms THEN {}
    ELSE {connections[u] :
            u \in {v \in rooms[room] \cap Users :
                     connections[v] # None /\ ~Excluded(v, exclude)}}

\* _send_to_room_users on the protocols pr
SendToRoomUsers(pr, room, m, exclude) ==
    [s \in Sess |-> IF s \in SendTargets(room, exclude)
                    THEN enqueue_message(pr[s], m) ELSE pr[s]]

\* message_queues as a dict in insertion order
MQGet(mq, room) ==
    IF \E i \in 1..Len(mq) : mq[i].room = room
    THEN (CHOOSE e \in {mq[i] : i \in 1..Len(mq)} : e.room = room).msgs
    ELSE <<>>

MQAppend(mq, room, m) ==
    IF \E i \in 1..Len(mq) : mq[i].room = room
    THEN [i \in 1..Len(mq) |->
            IF mq[i].room = room THEN [mq[i] EXCEPT !.msgs = Append(@, m)]
            ELSE mq[i]]
    ELSE Append(mq, [room |-> room, msgs |-> <<m>>])

\* Mutant of the batching test: every type is batched
BatchableAll(type) == TRUE

\* Whether a pending message is one broadcast_to_room batches
Batchable(type) == type \notin non_batchable_types

\* What _flush_message_queue hands to _send_to_room_users
FlushMessage(messages) ==
    IF Len(messages) = 1 THEN messages[1] ELSE BatchedUpdate(messages)

\* The exclude argument _flush_message_queue passes on
FlushExclude(messages) == None

\* The authenticated sessions that have joined room and neither left nor closed
Members(room) ==
    {s \in Sess : /\ proto[s].state \in {"open", "closing"}
                  /\ proto[s].user_id # None
                  /\ proto[s].room_id = room}

(***************************************************************************)
(* Initial state: the factory after __init__, no connection yet.           *)
(***************************************************************************)
DropPolicies == {"oldest", "newest"}

\* WS_SLOW_CLIENT_DISCONNECT_AFTER_DROPS: the default (never) and a threshold
DropThresholds == {0, 1}

Init ==
    /\ proto = [s \in Sess |-> NewProtocol]
    /\ connections = [u \in Users |-> None]
    /\ rooms = <<>>
    /\ message_queues = <<>>
    /\ tasks = <<>>
    /\ dbwait = {}
    /\ wire = [s \in Sess |-> <<>>]
    /\ now = 0
    /\ cfg \in [ws_drop_policy : DropPolicies,
                ws_slow_client_disconnect_after_drops : DropThresholds]
    /\ nmsg = 0
    /\ nops = 0
    /\ ev = NoEv
    /\ db = [rooms |-> <<>>, parts |-> {}]
    /\ reqs = [q \in Reqs |-> NoReq]

Task(k, s, room, msg, exclude) ==
    [k |-> k, s |-> s, room |-> room, msg |-> msg, exclude |-> exclude]

NoMsg == Msg("none", None, None, 0)

(***************************************************************************)
(* MusicRoomProtocol: connection, handshake, client messages, close.       *)
(***************************************************************************)
\* Protocol objects are created in this order (sessions are interchangeable)
Earlier(s) == IF s = "s2" THEN {"s1"} ELSE {}

\* onConnect and the end of the opening handshake, where the adapter
\* schedules the onOpen coroutine as a task
OnConnect(s, tok) ==
    /\ proto[s].state = "idle"
    /\ \A t \in Earlier(s) : proto[t].state # "idle"
    /\ proto' = [proto EXCEPT ![s] = [@ EXCEPT !.state = "open",
                                                !.auth_token = tok,
                                                !.onopen = "scheduled"]]
    /\ tasks' = Append(tasks, Task("open", s, None, NoMsg, None))
    /\ ev' = NoEv
    /\ UNCHANGED <<connections, rooms, message_queues, dbwait, wire, now, cfg,
                   nmsg, nops, db, reqs>>

\* onOpen.  Its one await, of authenticate_websocket, never yields to the
\* loop: verify_token's body is the synchronous auth.verify_id_token.
OnOpen ==
    /\ tasks # <<>>
    /\ Head(tasks).k = "open"
    /\ LET s == Head(tasks).s
           p == proto[s]
       IN  IF p.auth_token = None \/ p.auth_token = "bad"
           THEN /\ proto' = [proto EXCEPT ![s] =
                               [SendCloseCode(p, IF p.auth_token = None
                                                 THEN 4000 ELSE 4001)
                                  EXCEPT !.onopen = "done"]]
                /\ UNCHANGED <<connections, wire>>
           ELSE /\ proto' = [proto EXCEPT ![s] =
                               [InitSendQueue(p) EXCEPT
                                  !.user_id = p.auth_token,
                                  !.onopen = "done",
                                  !.authn = 1 + Cardinality(
                                               {t \in Sess : proto[t].authn > 0})]]
                /\ connections' = RegisterConnection(connections, s, p.auth_token)
                /\ wire' = SendMessage(wire, s,
                              Msg("connection_success", p.auth_token, None, 0))
    /\ tasks' = Tail(tasks)
    /\ ev' = NoEv
    /\ UNCHANGED <<rooms, message_queues, dbwait, now, cfg, nmsg, nops, db, reqs>>

\* onMessage with a join_room message: creates the handle_join_room task
OnMessageJoin(s, room) ==
    /\ proto[s].state = "open"
    /\ tasks' = Append(tasks, Task("join", s, room, NoMsg, None))
    /\ nops' = nops + 1
    /\ ev' = NoEv
    /\ UNCHANGED <<proto, connections, rooms, message_queues, dbwait, wire, now,
                   cfg, nmsg, db, reqs>>

\* onMessage with a leave_room message: creates the handle_leave_room task
OnMessageLeave(s) ==
    /\ proto[s].state = "open"
    /\ tasks' = Append(tasks, Task("leave", s, None, NoMsg, None))
    /\ nops' = nops + 1
    /\ ev' = NoEv
    /\ UNCHANGED <<proto, connections, rooms, message_queues, dbwait, wire, now,
                   cfg, nmsg, db, reqs>>

\* The frames a client sends: binary or text; the text is not JSON
\* ("garbage"), JSON that is no object ("array"), or an object whose type is
\* the text; room is its room_id, None when absent or empty
Texts == {"garbage", "array", "ping", "join_room", "leave_room"}
Frames == [isBinary : BOOLEAN, text : Texts, room : {"r1", None}]

\* Mutant of the dispatch of onMessage: isBinary is not looked at
HandlerForAnyFrame(f) ==
    IF f.text = "garbage" THEN "none"
    ELSE IF f.text = "array" THEN "none"
    ELSE IF f.text = "join_room" THEN "join"
    ELSE IF f.text = "leave_room" THEN "leave"
    ELSE "none"

\* The dispatch of onMessage: the handler whose task it creates
HandlerFor(f) ==
    IF f.isBinary THEN "none"                  \* binary: ignored
    ELSE IF f.text = "garbage" THEN "none"     \* json.JSONDecodeError: logged
    ELSE IF f.text = "array" THEN "none"       \* message.get raises: logged
    ELSE IF f.text = "join_room" THEN "join"
    ELSE IF f.text = "leave_room" THEN "leave"
    ELSE "none"                                \* unknown type: logged

\* onMessage(payload, isBinary)
OnMessage(s, f) ==
    /\ proto[s].state = "open"
    /\ tasks' = IF HandlerFor(f) = "none" THEN tasks
                ELSE Append(tasks, Task(HandlerFor(f), s, f.room, NoMsg, None))
    /\ nops' = nops + 1
    /\ ev' = [NoEv EXCEPT !.kind = IF f.isBinary THEN "binary" ELSE "text",
                          !.s = s, !.op = f.text, !.room = f.room]
    /\ UNCHANGED <<proto, connections, rooms, message_queues, dbwait, wire, now,
                   cfg, nmsg, db, reqs>>

\* Mutant of handle_join_room: an absent room_id is looked up like any other
HandleJoinRoomStartNoCheck ==
    /\ tasks # <<>>
    /\ Head(tasks).k = "join"
    /\ dbwait' = dbwait \cup {<<Head(tasks).s, Head(tasks).room>>}
    /\ tasks' = Tail(tasks)
    /\ ev' = NoEv
    /\ UNCHANGED <<proto, connections, rooms, message_queues, wire, now, cfg,
                   nmsg, nops, db, reqs>>

\* handle_join_room up to the await of the database lookup
HandleJoinRoomStart ==
    /\ tasks # <<>>
    /\ Head(tasks).k = "join"
    /\ LET t == Head(tasks) IN
       IF t.room = None
       THEN /\ wire' = SendMessage(wire, t.s, Msg("error", None, None, 0))
            /\ UNCHANGED dbwait
       ELSE /\ dbwait' = dbwait \cup {<<t.s, t.room>>}
            /\ UNCHANGED wire
    /\ tasks' = Tail(tasks)
    /\ ev' = NoEv
    /\ UNCHANGED <<proto, connections, rooms, message_queues, now, cfg, nmsg, nops, db, reqs>>

\* Mutant of handle_join_room: the join broadcasts participant_joined
HandleJoinRoomResumeBroadcast(s, room) ==
    /\ <<s, room>> \in dbwait
    /\ LET p == proto[s]
           old_room == p.room_id
           joined == JoinRoom(rooms, p.user_id, room)
       IN  /\ proto' = [proto EXCEPT ![s].room_id = room]
           /\ rooms' = IF old_room # None /\ old_room # room
                       THEN LeaveRoom(joined, p.user_id, old_room)
                       ELSE joined
    /\ wire' = SendMessage(wire, s, Msg("join_room_success", None, room, 0))
    /\ dbwait' = dbwait \ {<<s, room>>}
    /\ tasks' = Append(tasks, Task("bcast", None, room,
                                   Msg("participant_joined", proto[s].user_id,
                                       None, 0), s))
    /\ ev' = NoEv
    /\ UNCHANGED <<connections, message_queues, now, cfg, nmsg, nops, db, reqs>>

\* handle_join_room after the database lookup
HandleJoinRoomResume(s, room) ==
    /\ <<s, room>> \in dbwait
    /\ LET p == proto[s]
           old_room == p.room_id
           joined == JoinRoom(rooms, p.user_id, room)
       IN  /\ proto' = [proto EXCEPT ![s].room_id = room]
           /\ rooms' = IF old_room # None /\ old_room # room
                       THEN LeaveRoom(joined, p.user_id, old_room)
                       ELSE joined
    /\ wire' = SendMessage(wire, s, Msg("join_room_success", None, room, 0))
    /\ dbwait' = dbwait \ {<<s, room>>}
    /\ ev' = NoEv
    /\ UNCHANGED <<connections, message_queues, tasks, now, cfg, nmsg, nops, db, reqs>>

\* handle_leave_room
HandleLeaveRoom ==
    /\ tasks # <<>>
    /\ Head(tasks).k = "leave"
    /\ LET s == Head(tasks).s
           p == proto[s]
           room_id == p.room_id
       IN  IF room_id = None
           THEN /\ wire' = SendMessage(wire, s, Msg("error", None, None, 0))
                /\ tasks' = Tail(tasks)
                /\ ev' = NoEv
                /\ UNCHANGED <<proto, rooms, nmsg>>
           ELSE /\ nmsg' = nmsg + 1
                /\ tasks' = Append(Tail(tasks),
                              Task("bcast", None, room_id,
                                   Msg("participant_left", p.user_id, None, nmsg'),
                                   s))
                /\ rooms' = LeaveRoom(rooms, p.user_id, room_id)
                /\ proto' = [proto EXCEPT ![s].room_id = None]
                /\ wire' = SendMessage(wire, s, Msg("room_left", None, room_id, 0))
                /\ ev' = [NoEv EXCEPT !.kind = "leave", !.s = s, !.room = room_id,
                                      !.id = nmsg',
                                      !.others = Members(room_id) \ {s}]
    /\ UNCHANGED <<connections, message_queues, dbwait, now, cfg, nops, db, reqs>>

\* onClose
OnClose(s) ==
    /\ proto[s].state \in {"open", "closing"}
    /\ LET p == proto[s]
           room_id == p.room_id
       IN  /\ IF room_id # None
              THEN /\ nmsg' = nmsg + 1
                   /\ tasks' = Append(tasks,
                                 Task("bcast", None, room_id,
                                      Msg("participant_left", p.user_id, None, nmsg'),
                                      s))
                   /\ rooms' = LeaveRoom(rooms, p.user_id, room_id)
                   /\ ev' = [NoEv EXCEPT !.kind = "close", !.s = s,
                                         !.room = room_id, !.id = nmsg',
                                         !.others = Members(room_id) \ {s}]
              ELSE /\ ev' = [NoEv EXCEPT !.kind = "close", !.s = s]
                   /\ UNCHANGED <<nmsg, tasks, rooms>>
           /\ connections' = UnregisterConnection(connections, p.user_id)
           /\ proto' = [proto EXCEPT ![s] = [CloseSendQueue(p) EXCEPT !.state = "closed"]]
    /\ UNCHANGED <<message_queues, dbwait, wire, now, cfg, nops, db, reqs>>

\* Mutant of the writer: framing a payload unregisters the connection
WriterUnregister(s) ==
    /\ proto[s].writer = "running"
    /\ ~proto[s].closed
    /\ proto[s].send_queue # <<>>
    /\ wire' = SendMessage(wire, s, Head(proto[s].send_queue))
    /\ proto' = [proto EXCEPT ![s].send_queue = Tail(@)]
    /\ connections' = UnregisterConnection(connections, proto[s].user_id)
    /\ ev' = NoEv
    /\ UNCHANGED <<rooms, message_queues, tasks, dbwait, now, cfg, nmsg, nops,
                   db, reqs>>

\* One turn of the _writer loop: dequeue a payload and send it
Writer(s) ==
    /\ proto[s].writer = "running"
    /\ ~proto[s].closed
    /\ proto[s].send_queue # <<>>
    /\ wire' = SendMessage(wire, s, Head(proto[s].send_queue))
    /\ proto' = [proto EXCEPT ![s].send_queue = Tail(@)]
    /\ ev' = NoEv
    /\ UNCHANGED <<connections, rooms, message_queues, tasks, dbwait, now, cfg,
                   nmsg, nops, db, reqs>>

\* One turn of the _writer loop in which _send_bytes raises: the handler
\* "except Exception" logs the error and the writer task ends
WriterError(s) ==
    /\ proto[s].writer = "running"
    /\ ~proto[s].closed
    /\ proto[s].send_queue # <<>>
    /\ proto' = [proto EXCEPT ![s].send_queue = Tail(@), ![s].writer = "failed"]
    /\ ev' = NoEv
    /\ UNCHANGED <<connections, rooms, message_queues, tasks, dbwait, wire, now,
                   cfg, nmsg, nops, db, reqs>>

\* _flush_coalesced_after, once its sleep has ended
FlushCoalescedAfter(s) ==
    /\ proto[s].coalesce_task = "pending"
    /\ now >= proto[s].coalesce_wake
    /\ proto' = [proto EXCEPT ![s] =
                    FlushPending([@ EXCEPT !.coalesce_latest = <<>>,
                                           !.coalesce_task = "done"],
                                 proto[s].coalesce_latest)]
    /\ ev' = NoEv
    /\ UNCHANGED <<connections, rooms, message_queues, tasks, dbwait, wire, now,
                   cfg, nmsg, nops, db, reqs>>

(***************************************************************************)
(* MusicRoomFactory: broadcast, batching, the periodic flush.              *)
(***************************************************************************)
\* broadcast_to_room, run as the task created for it
BroadcastToRoom ==
    /\ tasks # <<>>
    /\ Head(tasks).k = "bcast"
    /\ LET t == Head(tasks)
           m == [t.msg EXCEPT !.gx = t.exclude, !.gm = Members(t.room)]
       IN  IF t.room \notin DOMAIN rooms
           THEN /\ ev' = NoEv
                /\ UNCHANGED <<proto, message_queues>>
           ELSE IF ~Batchable(m.type)
           THEN /\ proto' = SendToRoomUsers(proto, t.room, m, t.exclude)
                /\ ev' = [NoEv EXCEPT !.kind = "send", !.sends =
                            {[room |-> t.room, msg |-> m,
                              targets |-> SendTargets(t.room, t.exclude)]}]
                /\ UNCHANGED message_queues
           ELSE /\ message_queues' = MQAppend(message_queues, t.room, m)
                /\ ev' = NoEv
                /\ UNCHANGED proto
    /\ tasks' = Tail(tasks)
    /\ UNCHANGED <<connections, rooms, dbwait, wire, now, cfg, nmsg, nops, db, reqs>>

\* The loop of _periodic_flush_callback over message_queues, from entry i on
RECURSIVE FlushQueues(_, _)
FlushQueues(pr, i) ==
    IF i > Len(message_queues) THEN pr
    ELSE LET e == message_queues[i] IN
         FlushQueues(
           IF e.msgs = <<>> THEN pr
           ELSE SendToRoomUsers(pr, e.room, FlushMessage(e.msgs),
                                FlushExclude(e.msgs)),
           i + 1)

\* _periodic_flush_callback
PeriodicFlushCallback ==
    /\ \E i \in 1..Len(message_queues) : message_queues[i].msgs # <<>>
    /\ proto' = FlushQueues(proto, 1)
    /\ message_queues' = [i \in 1..Len(message_queues) |->
                            [message_queues[i] EXCEPT !.msgs = <<>>]]
    /\ ev' = [NoEv EXCEPT !.kind = "send", !.sends =
                {[room |-> message_queues[i].room,
                  msg |-> FlushMessage(message_queues[i].msgs),
                  targets |-> SendTargets(message_queues[i].room,
                                          FlushExclude(message_queues[i].msgs))] :
                 i \in {j \in 1..Len(message_queues) :
                          message_queues[j].msgs # <<>>}}]
    /\ UNCHANGED <<connections, rooms, tasks, dbwait, wire, now, cfg, nmsg, nops, db, reqs>>

(***************************************************************************)
(* The control plane (routers/rooms.py).                                   *)
(***************************************************************************)
\* _setup_websocket_room: register_room when a room is created
SetupWebsocketRoom(room) ==
    /\ room \notin DOMAIN rooms
    /\ rooms' = RegisterRoom(rooms, room)
    /\ ev' = NoEv
    /\ UNCHANGED <<proto, connections, message_queues, tasks, dbwait, wire, now,
                   cfg, nmsg, nops, db, reqs>>

\* An endpoint's notification: register_room, then create_task(broadcast ...)
ControlBroadcast(room, type, uid) ==
    /\ nmsg' = nmsg + 1
    /\ rooms' = RegisterRoom(rooms, room)
    /\ tasks' = Append(tasks, Task("bcast", None, room,
                                   Msg(type, uid,
                                       IF type = "room_closed" THEN room ELSE None,
                                       nmsg'),
                                   None))
    /\ ev' = NoEv
    /\ UNCHANGED <<proto, connections, message_queues, dbwait, wire, now, cfg, nops,
                   db, reqs>>

\* join_room / leave_room endpoints: participant_joined, participant_left
NotifyParticipant(room, type, uid) ==
    /\ type \in {"participant_joined", "participant_left"}
    /\ ControlBroadcast(room, type, uid)

\* create_room cleanup / leave_room endpoint: room_closed
NotifyRoomClosed(room) == ControlBroadcast(room, "room_closed", None)

\* select_song_for_room / update_room_page: song_updated, page_updated
NotifyUpdate(room, type) ==
    /\ type \in coalesce_types
    /\ ControlBroadcast(room, type, None)

(***************************************************************************)
(* The HTTP endpoints of routers/rooms.py with the database.  Every       *)
(* request has its own session (get_db_session): what it writes is seen    *)
(* by the other requests when it commits, and a Room object it has loaded  *)
(* keeps the attribute values of its first load.  An endpoint is split at  *)
(* the await between its reads and its commit; an endpoint that answers    *)
(* from its reads alone, or whose reads and commit need no split for the   *)
(* properties below, is one step.                                          *)
(***************************************************************************)
\* select(Room).where(Room.host_id == host_id)
HostRooms(host_id) == {r \in DOMAIN db.rooms : db.rooms[r].host_id = host_id}

\* select(RoomParticipant).where(RoomParticipant.room_id == room_id)
Participants(room) == {pt[2] : pt \in {x \in db.parts : x[1] = room}}

\* create_room_db and commit
InsertRoom(d, room, host_id) ==
    [d EXCEPT !.rooms = [r \in DOMAIN d.rooms \cup {room} |->
                           IF r = room
                           THEN [host_id |-> host_id, current_song |-> None,
                                 current_page |-> 0]
                           ELSE d.rooms[r]]]

\* delete_room: the participant rows of the room, then the room
DeleteRoom(d, room) ==
    [rooms |-> [r \in DOMAIN d.rooms \ {room} |-> d.rooms[r]],
     parts |-> {x \in d.parts : x[1] # room}]

RECURSIVE DeleteRooms(_, _)
DeleteRooms(d, old) ==
    IF old = <<>> THEN d ELSE DeleteRooms(DeleteRoom(d, Head(old)), Tail(old))

RECURSIVE RegisterRooms(_, _)
RegisterRooms(rs, old) ==
    IF old = <<>> THEN rs
    ELSE RegisterRooms(RegisterRoom(rs, Head(old)), Tail(old))

\* The orders in which a select can return the rows of S
Orders(S) ==
    {sq \in [1..Cardinality(S) -> S] : {sq[i] : i \in 1..Cardinality(S)} = S}

\* create_task(ws_factory.broadcast_to_room(room, {"type": type, ...}))
Notification(room, type, uid, id) ==
    Task("bcast", None, room,
         Msg(type, uid, IF type = "room_closed" THEN room ELSE None, id), None)

\* The answer of an endpoint
Response(op, uid, room, page, status) ==
    [NoEv EXCEPT !.kind = "http", !.op = op, !.uid = uid, !.room = room,
                 !.page = page, !.status = status]

\* create_room up to the select of _cleanup_existing_host_rooms
CreateRoomBegin(q, host_id) ==
    /\ reqs[q].op = "none"
    /\ reqs' = [reqs EXCEPT ![q] = [NoReq EXCEPT !.op = "create",
                                                  !.uid = host_id,
                                                  !.seen = HostRooms(host_id)]]
    /\ nops' = nops + 1
    /\ ev' = NoEv
    /\ UNCHANGED <<proto, connections, rooms, message_queues, tasks, dbwait,
                   wire, now, cfg, nmsg, db>>

\* create_room from the cleanup loop on: room_closed and delete_room for
\* each room the select returned, _create_new_room with its commit,
\* _setup_websocket_room
CreateRoomFinish(q, room_id) ==
    /\ reqs[q].op = "create"
    /\ room_id \notin DOMAIN db.rooms \ reqs[q].seen
    /\ \E old \in Orders(reqs[q].seen) :
          /\ tasks' = tasks \o [i \in 1..Len(old) |->
                                  Notification(old[i], "room_closed", None,
                                               nmsg + i)]
          /\ nmsg' = nmsg + Len(old)
          /\ rooms' = RegisterRoom(RegisterRooms(rooms, old), room_id)
          /\ db' = InsertRoom(DeleteRooms(db, old), room_id, reqs[q].uid)
    /\ reqs' = [reqs EXCEPT ![q] = NoReq]
    /\ ev' = Response("create", reqs[q].uid, room_id, 0, 200)
    /\ UNCHANGED <<proto, connections, message_queues, dbwait, wire, now, cfg,
                   nops>>

\* join_room (HTTP): get_room_access, add_participant, commit,
\* participant_joined
JoinRoomEndpoint(user_id, room_id) ==
    /\ nops' = nops + 1
    /\ IF room_id \notin DOMAIN db.rooms
       THEN /\ ev' = Response("join", user_id, room_id, 0, 404)
            /\ UNCHANGED <<db, rooms, tasks, nmsg>>
       ELSE /\ db' = [db EXCEPT !.parts = @ \cup {<<room_id, user_id>>}]
            /\ rooms' = RegisterRoom(rooms, room_id)
            /\ nmsg' = nmsg + 1
            /\ tasks' = Append(tasks, Notification(room_id, "participant_joined",
                                                   user_id, nmsg'))
            /\ ev' = Response("join", user_id, room_id, 0, 200)
    /\ UNCHANGED <<proto, connections, message_queues, dbwait, wire, now, cfg,
                   reqs>>

\* leave_room (HTTP) up to the select of the remaining participants:
\* get_room_access, the membership test, remove_participant (not committed)
LeaveRoomBegin(q, user_id, room_id) ==
    /\ reqs[q].op = "none"
    /\ nops' = nops + 1
    /\ IF room_id \notin DOMAIN db.rooms
       THEN /\ ev' = Response("leave", user_id, room_id, 0, 404)
            /\ UNCHANGED reqs
       ELSE IF <<room_id, user_id>> \notin db.parts
       THEN /\ ev' = Response("leave", user_id, room_id, 0, 400)
            /\ UNCHANGED reqs
       ELSE /\ reqs' = [reqs EXCEPT ![q] =
                          [NoReq EXCEPT
                             !.op = "leave", !.uid = user_id, !.room = room_id,
                             !.close = \/ user_id = db.rooms[room_id].host_id
                                       \/ Participants(room_id) \ {user_id} = {}]]
            /\ ev' = NoEv
    /\ UNCHANGED <<proto, connections, rooms, message_queues, tasks, dbwait,
                   wire, now, cfg, nmsg, db>>

\* leave_room (HTTP) from "if is_host or len(remaining_participants) == 0"
LeaveRoomFinish(q) ==
    /\ reqs[q].op = "leave"
    /\ LET user_id == reqs[q].uid
           room_id == reqs[q].room
       IN  /\ db' = IF reqs[q].close THEN DeleteRoom(db, room_id)
                    ELSE [db EXCEPT !.parts = @ \ {<<room_id, user_id>>}]
           /\ rooms' = RegisterRoom(rooms, room_id)
           /\ nmsg' = nmsg + 1
           /\ tasks' = Append(tasks,
                         IF reqs[q].close
                         THEN Notification(room_id, "room_closed", None, nmsg')
                         ELSE Notification(room_id, "participant_left", user_id,
                                           nmsg'))
           /\ ev' = Response("leave", user_id, room_id, 0, 200)
    /\ reqs' = [reqs EXCEPT ![q] = NoReq]
    /\ UNCHANGED <<proto, connections, message_queues, dbwait, wire, now, cfg,
                   nops>>

\* select_song_for_room: get_host_access, the song and its PDF exist, the
\* room gets the song and page 1, commit, broadcast_song_updated
SelectSongEndpoint(host_id, room_id, song_id) ==
    /\ nops' = nops + 1
    /\ IF room_id \notin DOMAIN db.rooms
       THEN /\ ev' = Response("song", host_id, room_id, 0, 404)
            /\ UNCHANGED <<db, rooms, tasks, nmsg>>
       ELSE IF db.rooms[room_id].host_id # host_id
       THEN /\ ev' = Response("song", host_id, room_id, 0, 403)
            /\ UNCHANGED <<db, rooms, tasks, nmsg>>
       ELSE /\ db' = [db EXCEPT !.rooms[room_id].current_song = song_id,
                                !.rooms[room_id].current_page = 1]
            /\ rooms' = RegisterRoom(rooms, room_id)
            /\ nmsg' = nmsg + 1
            /\ tasks' = Append(tasks,
                          [Notification(room_id, "song_updated", None, nmsg')
                             EXCEPT !.msg.page = 1])
            /\ ev' = Response("song", host_id, room_id, 1, 200)
    /\ UNCHANGED <<proto, connections, message_queues, dbwait, wire, now, cfg,
                   reqs>>

\* update_room_page up to the bounds check: get_host_access loads the Room
\* object, whose current_song and current_page the handler then reads
UpdatePageBegin(q, host_id, room_id, page) ==
    /\ reqs[q].op = "none"
    /\ nops' = nops + 1
    /\ IF room_id \notin DOMAIN db.rooms
       THEN /\ ev' = Response("page", host_id, room_id, page, 404)
            /\ UNCHANGED reqs
       ELSE IF db.rooms[room_id].host_id # host_id
       THEN /\ ev' = Response("page", host_id, room_id, page, 403)
            /\ UNCHANGED reqs
       ELSE IF /\ db.rooms[room_id].current_song # None
               /\ page > page_count(db.rooms[room_id].current_song)
       THEN /\ ev' = Response("page", host_id, room_id, page, 400)
            /\ UNCHANGED reqs
       ELSE /\ reqs' = [reqs EXCEPT ![q] =
                          [NoReq EXCEPT
                             !.op = "page", !.uid = host_id, !.room = room_id,
                             !.page = page,
                             !.cur_page = db.rooms[room_id].current_page]]
            /\ ev' = NoEv
    /\ UNCHANGED <<proto, connections, rooms, message_queues, tasks, dbwait,
                   wire, now, cfg, nmsg, db>>

\* update_room_page from "current_room.current_page = page" on: the commit
\* updates the column if the value differs from the loaded one (an UPDATE
\* that matches no row raises, caught as HTTP 500), then
\* broadcast_page_updated
UpdatePageFinish(q) ==
    /\ reqs[q].op = "page"
    /\ LET host_id == reqs[q].uid
           room_id == reqs[q].room
           page == reqs[q].page
       IN  IF page # reqs[q].cur_page /\ room_id \notin DOMAIN db.rooms
           THEN /\ ev' = Response("page", host_id, room_id, page, 500)
                /\ UNCHANGED <<db, rooms, tasks, nmsg>>
           ELSE /\ db' = IF page # reqs[q].cur_page
                         THEN [db EXCEPT !.rooms[room_id].current_page = page]
                         ELSE db
                /\ rooms' = RegisterRoom(rooms, room_id)
                /\ nmsg' = nmsg + 1
                /\ tasks' = Append(tasks,
                              [Notification(room_id, "page_updated", None, nmsg')
                                 EXCEPT !.msg.page = page])
                /\ ev' = Response("page", host_id, room_id, page, 200)
    /\ reqs' = [reqs EXCEPT ![q] = NoReq]
    /\ UNCHANGED <<proto, connections, message_queues, dbwait, wire, now, cfg,
                   nops>>

(***************************************************************************)
(* The clock.  Time is only observed through coalesce windows and flush    *)
(* timers, so it advances only while one of them is running.               *)
(***************************************************************************)
TimerRunning(p) ==
    /\ p.queue_init
    /\ \/ now < p.coalesce_until
       \/ p.coalesce_task = "pending" /\ now < p.coalesce_wake

Tick ==
    /\ \E s \in Sess : TimerRunning(proto[s])
    /\ now' = now + 1
    /\ ev' = NoEv
    /\ UNCHANGED <<proto, connections, rooms, message_queues, tasks, dbwait, wire,
                   cfg, nmsg, nops, db, reqs>>

(***************************************************************************)
(* Specifications.  The actions above are unbounded; each specification    *)
(* bounds what the environment sends: the messages broadcast (MaxMsgs),    *)
(* the client messages (MaxOps), the ready queue (MaxTasks) and the clock  *)
(* (MaxTime).                                                              *)
(***************************************************************************)
MsgBudget(n) == nmsg < n /\ Len(tasks) < MaxTasks
OpBudget(n) == nops < n /\ Len(tasks) < MaxTasks

\* The hub: two connections, membership, broadcast and batching.
NextHub ==
    \/ Len(tasks) < MaxTasks /\ OnConnect("s1", "u1")
    \/ \E tok \in Users : Len(tasks) < MaxTasks /\ OnConnect("s2", tok)
    \/ OnOpen
    \/ \E s \in Sess : OpBudget(MaxOps) /\ OnMessageJoin(s, "r1")
    \/ \E s \in Sess : OpBudget(MaxOps) /\ OnMessageLeave(s)
    \/ HandleJoinRoomStart
    \/ \E s \in Sess : HandleJoinRoomResume(s, "r1")
    \/ MsgBudget(MaxMsgs + 1) /\ HandleLeaveRoom
    \/ \E s \in Sess : MsgBudget(MaxMsgs) /\ OnClose(s)
    \/ BroadcastToRoom
    \/ PeriodicFlushCallback
    \/ SetupWebsocketRoom("r1")
    \/ MsgBudget(MaxMsgs) /\ NotifyParticipant("r1", "participant_joined", "u1")
    \/ MsgBudget(MaxMsgs) /\ NotifyUpdate("r1", "page_updated")

InitHub ==
    /\ Init
    /\ cfg.ws_drop_policy = "oldest"
    /\ cfg.ws_slow_client_disconnect_after_drops = 0

SpecHub == InitHub /\ [][NextHub]_vars

\* One connection: its queue, the coalescing window, the writer, the clock.
NextSession ==
    \/ OnConnect("s1", "u1")
    \/ OnOpen
    \/ OpBudget(1) /\ OnMessageJoin("s1", "r1")
    \/ HandleJoinRoomStart
    \/ HandleJoinRoomResume("s1", "r1")
    \/ MsgBudget(MaxMsgsQ) /\ OnClose("s1")
    \/ Writer("s1")
    \/ WriterError("s1")
    \/ FlushCoalescedAfter("s1")
    \/ BroadcastToRoom
    \/ PeriodicFlushCallback
    \/ MsgBudget(MaxMsgsQ) /\ NotifyRoomClosed("r1")
    \/ \E type \in coalesce_types : MsgBudget(MaxMsgsQ) /\ NotifyUpdate("r1", type)
    \/ now < MaxTime /\ Tick

SpecSession == Init /\ [][NextSession]_vars

\* The same connection under a fair event loop: every ready task and every
\* due timer eventually runs (asyncio runs its ready queue in FIFO order and
\* its timers when they are due), and time passes.  What the client and the
\* control plane do, and whether a send raises, is not forced.
SpecSessionFair ==
    /\ SpecSession
    /\ WF_vars(OnOpen)
    /\ WF_vars(HandleJoinRoomStart)
    /\ WF_vars(HandleJoinRoomResume("s1", "r1"))
    /\ WF_vars(Writer("s1"))
    /\ WF_vars(FlushCoalescedAfter("s1"))
    /\ WF_vars(BroadcastToRoom)
    /\ WF_vars(PeriodicFlushCallback)
    /\ WF_vars(now < MaxTime /\ Tick)

\* The handshake: any token on the first connection, client messages sent
\* at any time after the upgrade, a broadcast that reaches the wire.
NextHandshake ==
    \/ \E tok \in Tokens : Len(tasks) < MaxTasks /\ OnConnect("s1", tok)
    \/ Len(tasks) < MaxTasks /\ OnConnect("s2", "u1")
    \/ OnOpen
    \/ \E s \in Sess, room \in {"r1", None} :
          OpBudget(MaxOps - 1) /\ OnMessageJoin(s, room)
    \/ HandleJoinRoomStart
    \/ \E s \in Sess : HandleJoinRoomResume(s, "r1")
    \/ \E s \in Sess : MsgBudget(MaxMsgs) /\ OnClose(s)
    \/ BroadcastToRoom
    \/ PeriodicFlushCallback
    \/ \E s \in Sess : Writer(s)
    \/ MsgBudget(MaxMsgs) /\ NotifyRoomClosed("r1")

SpecHandshake == InitHub /\ [][NextHandshake]_vars

\* The room registry: two rooms, joins, leaves and closes.
NextRooms ==
    \/ Len(tasks) < MaxTasks /\ OnConnect("s1", "u1")
    \/ \E tok \in Users : Len(tasks) < MaxTasks /\ OnConnect("s2", tok)
    \/ OnOpen
    \/ \E s \in Sess, room \in Rooms : OpBudget(MaxOps) /\ OnMessageJoin(s, room)
    \/ \E s \in Sess : OpBudget(MaxOps) /\ OnMessageLeave(s)
    \/ HandleJoinRoomStart
    \/ \E s \in Sess, room \in Rooms : HandleJoinRoomResume(s, room)
    \/ MsgBudget(MaxMsgs) /\ HandleLeaveRoom
    \/ \E s \in Sess : MsgBudget(MaxMsgs) /\ OnClose(s)
    \/ BroadcastToRoom

SpecRooms == InitHub /\ [][NextRooms]_vars

\* The inbound frames: two users, every kind of frame, the two handlers.
NextFrames ==
    \/ Len(tasks) < MaxTasks /\ OnConnect("s1", "u1")
    \/ Len(tasks) < MaxTasks /\ OnConnect("s2", "u2")
    \/ OnOpen
    \/ \E s \in Sess, f \in Frames : OpBudget(MaxOps) /\ OnMessage(s, f)
    \/ HandleJoinRoomStart
    \/ \E s \in Sess : HandleJoinRoomResume(s, "r1")
    \/ MsgBudget(MaxMsgs) /\ HandleLeaveRoom
    \/ \E s \in Sess : MsgBudget(MaxMsgs) /\ OnClose(s)
    \/ BroadcastToRoom
    \/ PeriodicFlushCallback

SpecFrames == InitHub /\ [][NextFrames]_vars

\* The control plane: the HTTP endpoints of two users on the database, two
\* requests in flight, and the broadcasts they create.
NextRest ==
    \/ \E q \in Reqs, u \in Users : OpBudget(MaxReqs) /\ CreateRoomBegin(q, u)
    \/ \E q \in Reqs, r \in Rooms :
          Len(tasks) + Cardinality(reqs[q].seen) <= MaxTasks
          /\ CreateRoomFinish(q, r)
    \/ \E u \in Users, r \in Rooms :
          OpBudget(MaxReqs) /\ JoinRoomEndpoint(u, r)
    \/ \E q \in Reqs, u \in Users, r \in Rooms :
          OpBudget(MaxReqs) /\ LeaveRoomBegin(q, u, r)
    \/ \E q \in Reqs : Len(tasks) < MaxTasks /\ LeaveRoomFinish(q)
    \/ \E u \in Users, r \in Rooms, sg \in Songs :
          OpBudget(MaxReqs) /\ SelectSongEndpoint(u, r, sg)
    \/ \E q \in Reqs, u \in Users, r \in Rooms, pg \in Pages :
          OpBudget(MaxReqs) /\ UpdatePageBegin(q, u, r, pg)
    \/ \E q \in Reqs : Len(tasks) < MaxTasks /\ UpdatePageFinish(q)
    \/ BroadcastToRoom
    \/ PeriodicFlushCallback

SpecRest == InitHub /\ [][NextRest]_vars

\* Everything together.
Next ==
    \/ \E s \in Sess, tok \in Tokens : Len(tasks) < MaxTasks /\ OnConnect(s, tok)
    \/ OnOpen
    \/ \E s \in Sess, room \in Rooms \cup {None} :
          OpBudget(MaxOps) /\ OnMessageJoin(s, room)
    \/ \E s \in Sess : OpBudget(MaxOps) /\ OnMessageLeave(s)
    \/ HandleJoinRoomStart
    \/ \E s \in Sess, room \in Rooms : HandleJoinRoomResume(s, room)
    \/ MsgBudget(MaxMsgs + 1) /\ HandleLeaveRoom
    \/ \E s \in Sess : MsgBudget(MaxMsgs) /\ OnClose(s)
    \/ \E s \in Sess : Writer(s)
    \/ \E s \in Sess : WriterError(s)
    \/ \E s \in Sess : FlushCoalescedAfter(s)
    \/ BroadcastToRoom
    \/ PeriodicFlushCallback
    \/ \E room \in Rooms : SetupWebsocketRoom(room)
    \/ \E room \in Rooms, type \in {"participant_joined", "participant_left"},
          uid \in Users : MsgBudget(MaxMsgs) /\ NotifyParticipant(room, type, uid)
    \/ \E room \in Rooms : MsgBudget(MaxMsgs) /\ NotifyRoomClosed(room)
    \/ \E room \in Rooms, type \in coalesce_types :
          MsgBudget(MaxMsgs) /\ NotifyUpdate(room, type)
    \/ now < MaxTime /\ Tick

Spec == Init /\ [][Next]_vars

(***************************************************************************)
(* Properties.                                                             *)
(***************************************************************************)
\* The frames of a session's wire that came through its outbound queue
Framed(s) == {i \in 1..Len(wire[s]) : wire[s][i].seq > 0}

\* The sessions of user u that are authenticated and not yet closed
OpenAuth(u) ==
    {s \in Sess : /\ proto[s].state \in {"open", "closing"}
                  /\ proto[s].onopen = "done"
                  /\ proto[s].user_id = u}

\* C1: a Broadcast(R, msg, exclude=X) made while R's members are M results in
\* an enqueue attempt on exactly the sessions of M \ {X}, whatever the kind of
\* msg (sent at once, or delivered by the periodic flush, alone or batched).
C1_BroadcastReachesMembersOnce ==
    \A snd \in ev.sends : \A m \in Inner(snd.msg) :
        snd.targets = m.gm \ {m.gx}

\* C2: the outbound queue of a session never holds more than send_queue_max
\* payloads.
C2_QueueBounded ==
    \A s \in Sess : Len(proto[s].send_queue) <= QueueMax

\* C2 witness: a full queue on which an enqueue has been attempted.
C2_Witness ==
    \E s \in Sess : /\ Len(proto[s].send_queue) = QueueMax
                    /\ proto[s].dropped_count > 0

\* C3: the messages of one coalescable type accepted within one coalesce
\* window give at most one frame of that type, and that frame carries the
\* last value accepted in the window.
C3_OneFramePerWindow ==
    \A s \in Sess : \A i \in Framed(s) :
        wire[s][i].type \in coalesce_types =>
            /\ \A j \in Framed(s) :
                  (wire[s][j].type = wire[s][i].type
                   /\ wire[s][j].win = wire[s][i].win) => j = i
            /\ wire[s][i].win = proto[s].window =>
                  wire[s][i].seq = proto[s].cur[wire[s][i].type]

\* C4: whenever the coalesce buffer of an open session is non-empty, a
\* coalesce flush is pending for it.
C4_FlushPendingWhileBuffered ==
    \A s \in Sess :
        (proto[s].state = "open" /\ proto[s].coalesce_latest # <<>>)
            => proto[s].coalesce_task = "pending"

\* C5 as claimed: messages of any kinds accepted by a session in some order
\* are framed on the wire in that order.
C5_FramedInAcceptOrder ==
    \A s \in Sess : \A i, j \in Framed(s) :
        i < j => wire[s][i].seq < wire[s][j].seq

\* C5 amended: non-coalescable messages accepted by a session in some order
\* are framed on the wire in that order.
C5_DirectFramedInAcceptOrder ==
    \A s \in Sess : \A i, j \in Framed(s) :
        (/\ i < j
         /\ wire[s][i].type \notin coalesce_types
         /\ wire[s][j].type \notin coalesce_types)
            => wire[s][i].seq < wire[s][j].seq

\* C5 witness: two non-coalescable messages framed on one session's wire.
C5_Witness ==
    \E s \in Sess : \E i, j \in Framed(s) :
        /\ i < j
        /\ wire[s][i].type \notin coalesce_types
        /\ wire[s][j].type \notin coalesce_types

\* C6: when leave_room or a close removes S from room R, participant_left of
\* S has already been enqueued on every other member of R.
C6_ParticipantLeftBeforeRemoval ==
    ev.kind \in {"leave", "close"} =>
        \A o \in ev.others :
            \E i \in 1..Len(proto[o].send_queue) :
                \E m \in Inner(proto[o].send_queue[i]) : m.id = ev.id

\* C7: the participant_left of S's own leave_room or close is never enqueued
\* on S, nor on another session of S's user.
C7_NoParticipantLeftToSelf ==
    \A snd \in ev.sends : \A m \in Inner(snd.msg) :
        (m.type = "participant_left" /\ m.gx # None) =>
            \A t \in snd.targets :
                t # m.gx /\ proto[t].user_id # proto[m.gx].user_id

\* C8: room_closed, participant_joined and participant_left are never placed
\* in a room's pending-batch list.
C8_CriticalNeverBatched ==
    \A i \in 1..Len(message_queues) :
        \A j \in 1..Len(message_queues[i].msgs) :
            message_queues[i].msgs[j].type \notin
                {"room_closed", "participant_joined", "participant_left"}

\* C9: no broadcast calls enqueue on a session whose close handling has run.
C9_NoEnqueueOnClosed ==
    \A snd \in ev.sends : \A t \in snd.targets : proto[t].state # "closed"

\* C10: for each user with an open authenticated session, the user-map entry
\* is the most recently authenticated of the user's open sessions.
C10_UserMapLatestOpen ==
    \A u \in Users :
        OpenAuth(u) # {} =>
            /\ connections[u] \in OpenAuth(u)
            /\ \A s \in OpenAuth(u) :
                  proto[s].authn <= proto[connections[u]].authn

\* The registry resolves session s as a member of room r: user-keyed lookup
Registered(rs, pr, s, r) ==
    /\ r \in DOMAIN rs
    /\ pr[s].user_id \in rs[r]

\* Session s has joined a room and has neither left it nor closed
Joined(s) ==
    /\ proto[s].state = "open"
    /\ proto[s].onopen = "done"
    /\ proto[s].user_id # None
    /\ proto[s].room_id # None

\* C11: the close of a session A never removes the membership of another
\* session B, also when A and B are sessions of the same user.
C11_CloseKeepsOthersMembership ==
    [][\A a \in Sess :
         (proto[a].state # "closed" /\ proto'[a].state = "closed") =>
            \A b \in Sess \ {a} :
               (Joined(b) /\ Registered(rooms, proto, b, proto[b].room_id))
                  => Registered(rooms', proto', b, proto[b].room_id)]_vars

\* C13: every session a broadcast to room R is enqueued on has R as its
\* current room.
C13_TargetsAreInTheRoom ==
    \A snd \in ev.sends : \A t \in snd.targets : proto[t].room_id = snd.room

\* C14: the registration of a new session of user u evicts and closes the
\* earlier session of u, so no two open sessions are authenticated as u.
C14_EarlierSessionEvicted ==
    \A s, t \in Sess :
        (/\ s # t
         /\ proto[s].onopen = "done" /\ proto[t].onopen = "done"
         /\ proto[s].user_id # None
         /\ proto[s].user_id = proto[t].user_id)
            => ~(proto[s].state = "open" /\ proto[t].state = "open")

\* C16: once the close handling of a session has run, the session is never
\* again entered in the user-map, and its user is not added to a room unless
\* another session of that user is there to join.
C16_ClosedIsTerminal ==
    [][\A s \in Sess :
         proto[s].state = "closed" =>
            /\ \A u \in Users : connections'[u] = s => connections[u] = s
            /\ \A r \in Rooms :
                  (/\ proto[s].user_id # None
                   /\ Registered(rooms', proto, s, r)
                   /\ ~Registered(rooms, proto, s, r))
                     => \E t \in Sess \ {s} :
                           /\ proto[t].state # "closed"
                           /\ proto[t].user_id = proto[s].user_id]_vars

\* C17: after the close handling of a session has run, its outbound queue is
\* empty and stays empty: the coalesce flush is cancelled, so no buffered
\* coalesced message is put on the queue afterwards.
C17_ClosedQueueStaysEmpty ==
    \A s \in Sess :
        (proto[s].state = "closed" /\ proto[s].queue_init /\ proto[s].closed)
            => proto[s].send_queue = <<>>

\* C18: a session whose writer has failed does not stay open: the failure
\* closes it (close code 1011), at the latest in the step that handles it.
C18_WriterErrorClosesSession ==
    \A s \in Sess :
        proto[s].writer = "failed" => proto[s].state \in {"closing", "closed"}

\* C12: the registry records every session as a member of at most one room.
C12_AtMostOneRoom ==
    \A s \in Sess :
        proto[s].user_id # None =>
            Cardinality({r \in DOMAIN rooms : Registered(rooms, proto, s, r)}) <= 1

\* C15: a session enters a room's membership, and is sent join_room_success,
\* only after its token has been verified; a join_room of a session that is
\* not authenticated changes no membership.
C15_JoinOnlyAfterAuth ==
    /\ \A r \in DOMAIN rooms : rooms[r] \subseteq Users
    /\ \A s \in Sess :
          (\/ proto[s].room_id # None
           \/ \E i \in 1..Len(wire[s]) : wire[s][i].type = "join_room_success")
             => proto[s].user_id # None

\* The sessions whose upgrade carried no token, or one the verifier rejects
Unverifiable(s) == proto[s].auth_token \in {None, "bad"} /\ proto[s].state # "idle"

\* C19: a connection without a token is closed with 4000, one with a
\* rejected token with 4001; no server message is sent on it, no outbound
\* queue or writer is created for it, and it is never in the user-map.
C19_RejectedHandshake ==
    \A s \in Sess :
        Unverifiable(s) =>
            /\ wire[s] = <<>>
            /\ ~proto[s].queue_init
            /\ proto[s].writer = "none"
            /\ \A u \in Users : connections[u] # s
            /\ proto[s].onopen = "done" =>
                  /\ proto[s].state \in {"closing", "closed"}
                  /\ proto[s].close_code \in
                        {0, IF proto[s].auth_token = None THEN 4000 ELSE 4001}
                  /\ proto[s].state = "closing" => proto[s].close_code # 0

\* C19 witness: a rejected connection on which the close frame has been sent.
C19_Witness ==
    \E s \in Sess :
        /\ Unverifiable(s)
        /\ proto[s].onopen = "done"
        /\ proto[s].state = "closing"
        /\ proto[s].close_code \in {4000, 4001}

\* C20: on an authenticated session exactly one connection_success is sent,
\* and it is the first server message of the connection.
C20_ConnectionSuccessFirst ==
    \A s \in Sess :
        /\ wire[s] # <<>> =>
              /\ wire[s][1].type = "connection_success"
              /\ \A i \in 2..Len(wire[s]) : wire[s][i].type # "connection_success"
        /\ (/\ proto[s].state = "open"
            /\ proto[s].onopen = "done"
            /\ proto[s].user_id # None) => wire[s] # <<>>

\* C20 witness: an authenticated session that has been sent a further
\* message after its connection_success.
C20_Witness ==
    \E s \in Sess :
        /\ proto[s].user_id # None
        /\ Len(wire[s]) >= 2
        /\ wire[s][1].type = "connection_success"
        /\ wire[s][1].uid = proto[s].user_id

\* C21: with threshold T = 0 no number of drops closes the session; with
\* T > 0 the close with code 4002 is issued only once dropped_count exceeds T.
C21_CloseOnlyAboveThreshold ==
    \A s \in Sess :
        proto[s].close_code = 4002 =>
            /\ cfg.ws_slow_client_disconnect_after_drops > 0
            /\ proto[s].dropped_count > cfg.ws_slow_client_disconnect_after_drops

\* The step calls enqueue_message on session s with a non-coalescable message
DirectAttempt(s) ==
    /\ ev'.kind = "send"
    /\ \E snd \in ev'.sends :
          s \in snd.targets /\ snd.msg.type \notin coalesce_types

\* C22: under drop_policy=oldest, the enqueue of a non-coalescable payload on
\* a queue holding exactly send_queue_max payloads removes the head, appends
\* the new payload as the tail, keeps the order of the others and increments
\* dropped_count by exactly one.
C22_DropOldest ==
    [][\A s \in Sess :
         (/\ DirectAttempt(s)
          /\ cfg.ws_drop_policy = "oldest"
          /\ proto[s].queue_init
          /\ Len(proto[s].send_queue) = QueueMax)
            => /\ Len(proto'[s].send_queue) = QueueMax
               /\ SubSeq(proto'[s].send_queue, 1, QueueMax - 1)
                     = Tail(proto[s].send_queue)
               /\ proto'[s].send_queue[QueueMax].seq = proto[s].nacc + 1
               /\ proto'[s].nacc = proto[s].nacc + 1
               /\ proto'[s].dropped_count = proto[s].dropped_count + 1]_vars

\* C22 witness: with a stalled writer, M1, M2, M3 were enqueued on a queue
\* of two: M2, M3 wait to be framed in that order and one payload was dropped.
C22_Witness ==
    \E s \in Sess :
        /\ cfg.ws_drop_policy = "oldest"
        /\ Framed(s) = {}
        /\ Len(proto[s].send_queue) = QueueMax
        /\ \A i \in 1..QueueMax : proto[s].send_queue[i].seq = i + 1
        /\ proto[s].nacc = QueueMax + 1
        /\ proto[s].dropped_count = 1

\* C30: under drop_policy=newest, the enqueue of a non-coalescable payload on
\* a full queue leaves the queue unchanged, does not accept the message and
\* increments dropped_count by exactly one.
C30_DropNewest ==
    [][\A s \in Sess :
         (/\ DirectAttempt(s)
          /\ cfg.ws_drop_policy = "newest"
          /\ proto[s].queue_init
          /\ Len(proto[s].send_queue) = QueueMax)
            => /\ proto'[s].send_queue = proto[s].send_queue
               /\ proto'[s].nacc = proto[s].nacc
               /\ proto'[s].dropped_count = proto[s].dropped_count + 1]_vars

\* C30 witness: a full queue that has refused a payload under newest.
C30_Witness ==
    \E s \in Sess :
        /\ cfg.ws_drop_policy = "newest"
        /\ Len(proto[s].send_queue) = QueueMax
        /\ \A i \in 1..QueueMax : proto[s].send_queue[i].seq = i
        /\ proto[s].nacc = QueueMax
        /\ proto[s].dropped_count = 1

\* A step of _flush_coalesced_after on session s: its task ends
FlushStep(s) ==
    proto[s].coalesce_task = "pending" /\ proto'[s].coalesce_task = "done"

\* The payloads a step tries to put on the outbound queue of s
Attempts(s) ==
    IF FlushStep(s) THEN Len(proto[s].coalesce_latest)
    ELSE Cardinality({snd \in ev'.sends :
                        s \in snd.targets /\ snd.msg.type \notin coalesce_types})

\* C23: on every step that puts payloads on the outbound queue of a session
\* (a direct enqueue or the flush of the coalesce window, under either drop
\* policy), dropped_count grows by exactly the number of payloads discarded
\* because the queue was full: those tried or queued before the step that are
\* not in the queue after it
C23_DropsCounted ==
    [][\A s \in Sess :
         (/\ proto[s].queue_init
          /\ FlushStep(s) \/ DirectAttempt(s))
            => proto'[s].dropped_count - proto[s].dropped_count
                 = Attempts(s) + Len(proto[s].send_queue)
                               - Len(proto'[s].send_queue)]_vars

\* C29: the surviving messages of one coalesce window are on the outbound
\* queue in the order in which their final values were broadcast
C29_FlushInBroadcastOrder ==
    \A s \in Sess :
        \A i, j \in 1..Len(proto[s].send_queue) :
            LET a == proto[s].send_queue[i]
                b == proto[s].send_queue[j]
            IN  (/\ i < j
                 /\ a.type \in coalesce_types /\ b.type \in coalesce_types
                 /\ a.win = b.win)
                    => a.seq < b.seq

\* A step of broadcast_to_room for a room that has no registry entry
BroadcastToMissingRoom ==
    /\ tasks # <<>>
    /\ Head(tasks).k = "bcast"
    /\ Head(tasks).room \notin DOMAIN rooms
    /\ tasks' = Tail(tasks)

\* C25: when the last member of a room leaves (leave_room message or close),
\* the room's registry entry is removed, never left empty; and a broadcast to
\* a room without entry enqueues nothing on any session, frames nothing and
\* adds nothing to any pending-batch list
C25_EmptyRoomRemoved ==
    [][/\ \A r \in DOMAIN rooms :
             (rooms[r] # {} /\ r \in DOMAIN rooms') => rooms'[r] # {}
       /\ BroadcastToMissingRoom =>
             /\ proto' = proto
             /\ message_queues' = message_queues
             /\ wire' = wire
             /\ rooms' = rooms]_vars

\* The last member has left, the participant_left broadcast created by that
\* leave has run against the removed room, and nothing is queued or pending
C25_Witness ==
    /\ DOMAIN rooms = {}
    /\ tasks = <<>>
    /\ nmsg = 1
    /\ message_queues = <<>>
    /\ \E s \in Sess :
          /\ wire[s] # <<>>
          /\ wire[s][Len(wire[s])].type = "room_left"
          /\ proto[s].send_queue = <<>>

\* The payload accepted as the k-th by session s is on its outbound queue
Queued(s, k) ==
    \E i \in 1..Len(proto[s].send_queue) : proto[s].send_queue[i].seq = k

\* C24: under a fair scheduler every payload on the outbound queue of a
\* session eventually leaves it (framed by the writer, removed by the drop
\* policy, or discarded by the close of the session)
C24_QueuedEventuallyLeaves ==
    \A s \in Sess : \A k \in 1..MaxMsgsQ :
        Queued(s, k) ~> ~Queued(s, k)

\* C26: each host id is the host of at most one persisted room, whatever
\* create-room requests ran, also concurrently
C26_OneRoomPerHost ==
    \A h \in Users : Cardinality(HostRooms(h)) <= 1

\* The broadcast tasks a step created
NewTasks == SubSeq(tasks', Len(tasks) + 1, Len(tasks'))

\* The step answers a request of endpoint op
Answers(op) == ev'.kind = "http" /\ ev'.op = op

\* C27: a leave request of the room's host or of its last participant is
\* answered by deleting the room with its participant rows and one
\* room_closed broadcast; a leave of a non-host participant while others
\* remain keeps the room, removes the participant and broadcasts
\* participant_left; a leave of a user who is not a participant of the room
\* is rejected and changes neither the database nor the broadcasts
C27_HttpLeave ==
    [][Answers("leave") =>
         LET u == ev'.uid
             r == ev'.room
         IN  IF r \in DOMAIN db.rooms /\ <<r, u>> \in db.parts
             THEN IF u = db.rooms[r].host_id \/ Participants(r) = {u}
                  THEN /\ ev'.status = 200
                       /\ r \notin DOMAIN db'.rooms
                       /\ \A x \in db'.parts : x[1] # r
                       /\ Len(NewTasks) = 1
                       /\ NewTasks[1].room = r
                       /\ NewTasks[1].msg.type = "room_closed"
                  ELSE /\ ev'.status = 200
                       /\ r \in DOMAIN db'.rooms
                       /\ db'.parts = db.parts \ {<<r, u>>}
                       /\ Len(NewTasks) = 1
                       /\ NewTasks[1].room = r
                       /\ NewTasks[1].msg.type = "participant_left"
             ELSE /\ ev'.status # 200
                  /\ db' = db
                  /\ NewTasks = <<>>]_vars

\* C28: for a page request of the host of a room that has a current song,
\* a page above the song's page_count is answered 400, changes no persisted
\* page and creates no broadcast; a page within 1..page_count is persisted
\* and creates exactly one page_updated broadcast carrying that page
C28_PageBounds ==
    [][Answers("page") =>
         LET r == ev'.room
             pg == ev'.page
         IN  (/\ r \in DOMAIN db.rooms
              /\ db.rooms[r].host_id = ev'.uid
              /\ db.rooms[r].current_song # None)
                => IF pg > page_count(db.rooms[r].current_song)
                   THEN /\ ev'.status = 400
                        /\ db' = db
                        /\ NewTasks = <<>>
                   ELSE /\ ev'.status = 200
                        /\ db'.rooms[r].current_page = pg
                        /\ Len(NewTasks) = 1
                        /\ NewTasks[1].room = r
                        /\ NewTasks[1].msg.type = "page_updated"
                        /\ NewTasks[1].msg.page = pg]_vars

\* A step of _periodic_flush_callback
FlushCallbackStep ==
    /\ \E i \in 1..Len(message_queues) : message_queues[i].msgs # <<>>
    /\ ev'.kind = "send"
    /\ \A i \in 1..Len(message_queues') : message_queues'[i].msgs = <<>>

\* C31: a periodic flush empties every pending-batch list, and for a room
\* with pending messages every member session whose queue has room gets
\* exactly one new payload: the single pending message itself, or one
\* batched_update listing all the pending messages in broadcast order
C31_FlushDeliversPendingOnce ==
    [][FlushCallbackStep =>
         \A i \in 1..Len(message_queues) :
            LET e == message_queues[i] IN
            e.msgs # <<>> =>
               \A s \in Members(e.room) :
                  (proto[s].queue_init /\ ~proto[s].closed
                   /\ Len(proto[s].send_queue) < QueueMax)
                     => /\ Len(proto'[s].send_queue) = Len(proto[s].send_queue) + 1
                        /\ [proto'[s].send_queue[Len(proto'[s].send_queue)]
                              EXCEPT !.seq = 0] = FlushMessage(e.msgs)]_vars

\* A step of the handling of a join_room message of session s: onMessage
\* creating the task, handle_join_room before or after its database lookup
JoinStep(s) ==
    \/ /\ Len(tasks') = Len(tasks) + 1
       /\ tasks'[Len(tasks')].k = "join" /\ tasks'[Len(tasks')].s = s
    \/ /\ tasks # <<>> /\ Head(tasks).k = "join" /\ Head(tasks).s = s
       /\ tasks' = Tail(tasks)
    \/ \E room \in Rooms : <<s, room>> \in dbwait /\ <<s, room>> \notin dbwait'

\* The broadcast tasks in the ready queue
Broadcasts(ts) == {i \in 1..Len(ts) : ts[i].k = "bcast"}

\* C32: the handling of a join_room message, a move from another room
\* included, changes no other session (nothing is enqueued on it or framed
\* for it), puts nothing in a pending-batch list and creates no broadcast
C32_JoinBroadcastsNothing ==
    [][\A s \in Sess :
         JoinStep(s) =>
            /\ \A o \in Sess \ {s} : proto'[o] = proto[o] /\ wire'[o] = wire[o]
            /\ proto'[s].send_queue = proto[s].send_queue
            /\ proto'[s].coalesce_latest = proto[s].coalesce_latest
            /\ message_queues' = message_queues
            /\ Cardinality(Broadcasts(tasks')) = Cardinality(Broadcasts(tasks))
            /\ nmsg' = nmsg]_vars

\* A session has moved from r1 to r2 while another session is in r1, and
\* nothing was enqueued, batched or scheduled
C32_Witness ==
    \E s \in Sess, o \in Sess :
        /\ s # o
        /\ proto[s].room_id = "r2"
        /\ \E i \in 1..Len(wire[s]) :
              wire[s][i].type = "join_room_success" /\ wire[s][i].room = "r1"
        /\ proto[o].room_id = "r1" /\ proto[o].user_id # proto[s].user_id
        /\ proto[o].send_queue = <<>>
        /\ message_queues = <<>>
        /\ tasks = <<>>
        /\ nmsg = 0

\* The step is onMessage with a frame that is binary, a text that is not
\* JSON or not an object, or an object of another type than join_room and
\* leave_room
IgnoredFrame ==
    \/ ev'.kind = "binary"
    \/ ev'.kind = "text" /\ ev'.op \in {"garbage", "array", "ping"}

\* C33: such a frame changes no session and no hub state, sends no server
\* message, creates no handler and leaves the connection open
C33_OtherFramesIgnored ==
    [][IgnoredFrame =>
         /\ proto' = proto
         /\ connections' = connections
         /\ rooms' = rooms
         /\ message_queues' = message_queues
         /\ tasks' = tasks
         /\ dbwait' = dbwait
         /\ wire' = wire
         /\ proto'[ev'.s].state = "open"]_vars

\* A joined session has just sent a binary frame holding a join_room message
C33_Witness ==
    /\ ev.kind = "binary" /\ ev.op = "join_room"
    /\ proto[ev.s].room_id = "r1"
    /\ proto[ev.s].state = "open"
    /\ tasks = <<>>

\* The step runs handle_join_room of s for a message without room_id, or
\* handle_leave_room of s while s is in no room
RefusedStep(s) ==
    /\ tasks # <<>>
    /\ Head(tasks).s = s
    /\ tasks' = Tail(tasks)
    /\ \/ Head(tasks).k = "join" /\ Head(tasks).room = None
       \/ Head(tasks).k = "leave" /\ proto[s].room_id = None

\* C34: such a handler sends one error message to the sender (if its socket
\* is still open) and nothing to anybody else, and leaves the room
\* membership, the user-map, every session and every pending-batch list
\* unchanged
C34_RefusedWithErrorOnly ==
    [][\A s \in Sess :
         RefusedStep(s) =>
            /\ wire'[s] = IF proto[s].state = "open"
                          THEN Append(wire[s], Msg("error", None, None, 0))
                          ELSE wire[s]
            /\ \A o \in Sess \ {s} : wire'[o] = wire[o]
            /\ proto' = proto
            /\ rooms' = rooms
            /\ connections' = connections
            /\ message_queues' = message_queues
            /\ dbwait' = dbwait]_vars

\* A session in no room was refused twice while the other user stays the
\* only member of r1, with nothing queued
C34_Witness ==
    \E s \in Sess, o \in Sess :
        /\ s # o
        /\ proto[s].room_id = None /\ proto[s].state = "open"
        /\ Len(wire[s]) = 3
        /\ wire[s][2].type = "error" /\ wire[s][3].type = "error"
        /\ proto[o].room_id = "r1"
        /\ rooms = [r \in {"r1"} |-> {proto[o].user_id}]
        /\ connections[proto[s].user_id] = s
        /\ proto[o].send_queue = <<>>
        /\ tasks = <<>>

\* C35: in every state of the registry, register_room(R) yields a registry
\* with an entry for R; it returns the registry unchanged when R has an
\* entry; a second call changes nothing more; no other entry and no
\* membership set is altered
C35_RegisterRoomIdempotent ==
    \A r \in Rooms :
        LET once == RegisterRoom(rooms, r) IN
        /\ r \in DOMAIN once
        /\ r \in DOMAIN rooms => once = rooms
        /\ RegisterRoom(once, r) = once
        /\ DOMAIN once = DOMAIN rooms \cup {r}
        /\ \A x \in DOMAIN rooms : once[x] = rooms[x]

\* The control plane has registered r1 and scheduled its broadcast while r1
\* has a member, and the member is still there
C35_Witness ==
    /\ "r1" \in DOMAIN rooms
    /\ rooms["r1"] # {}
    /\ \E i \in 1..Len(tasks) :
          /\ tasks[i].k = "bcast"
          /\ tasks[i].room = "r1"
          /\ tasks[i].msg.type = "participant_joined"

\* The payloads on the outbound queue and the frames on the socket of s
Payloads(s) ==
    {proto[s].send_queue[i] : i \in 1..Len(proto[s].send_queue)}
        \cup {wire[s][i] : i \in 1..Len(wire[s])}

\* C36: no song_updated and no page_updated is ever in a pending-batch list
\* or inside a batched_update, queued or framed
C36_CoalescedBypassBatching ==
    /\ \A i \in 1..Len(message_queues) :
          \A j \in 1..Len(message_queues[i].msgs) :
             message_queues[i].msgs[j].type \notin coalesce_types
    /\ \A s \in Sess : \A m \in Payloads(s) :
          m.type = "batched_update" =>
             \A j \in 1..Len(m.msgs) : m.msgs[j].type \notin coalesce_types

\* A session got a batched_update and, on its own, a song or page update
C36_Witness ==
    \E s \in Sess :
        /\ \E m \in Payloads(s) : m.type = "batched_update"
        /\ \E m \in Payloads(s) : m.type \in coalesce_types

\* A step of broadcast_to_room, of the writer of s or of a flush
DeliveryStep ==
    \/ /\ tasks # <<>> /\ Head(tasks).k = "bcast" /\ tasks' = Tail(tasks)
    \/ FlushCallbackStep
    \/ \E s \in Sess : FlushStep(s)
    \/ \E s \in Sess :
          /\ proto[s].send_queue # <<>>
          /\ proto'[s].send_queue = Tail(proto[s].send_queue)
          /\ proto'[s].closed = proto[s].closed
          /\ proto'[s].nacc = proto[s].nacc

\* A step of the handshake completion, of handle_join_room or
\* handle_leave_room, of onClose, or one that applies register_room
MembershipStep ==
    \/ tasks # <<>> /\ Head(tasks).k \in {"open", "leave"} /\ tasks' = Tail(tasks)
    \/ tasks # <<>> /\ Head(tasks).k = "leave" /\ Len(tasks') = Len(tasks)
    \/ dbwait' # dbwait
    \/ ev'.kind = "close"
    \/ \E r \in Rooms : rooms' = RegisterRoom(rooms, r) /\ connections' = connections

\* C37: broadcast, the periodic flush, the coalesce flush and the writer
\* leave the room membership and the user-map as they are; the two mappings
\* change only in a handshake, join, leave, close or register_room step
C37_DeliveryKeepsMappings ==
    [][/\ DeliveryStep => rooms' = rooms /\ connections' = connections
       /\ (rooms' # rooms \/ connections' # connections) => MembershipStep]_vars

\* A coalesced update and a batched message have both been framed for the
\* member of r1, whose membership and user-map entry are as they were
C37_Witness ==
    \E s \in Sess :
        /\ \E i \in 1..Len(wire[s]) : wire[s][i].type \in coalesce_types
        /\ \E i \in 1..Len(wire[s]) : wire[s][i].type = "room_closed"
        /\ proto[s].room_id = "r1"
        /\ rooms = [r \in {"r1"} |-> {proto[s].user_id}]
        /\ connections[proto[s].user_id] = s

\* The step runs a broadcast that an HTTP endpoint scheduled (the handlers
\* of the sessions schedule theirs with the leaving session as exclude)
ControlBroadcastRuns ==
    /\ tasks # <<>>
    /\ Head(tasks).k = "bcast"
    /\ Head(tasks).exclude = None
    /\ tasks' = Tail(tasks)

\* C38: a broadcast scheduled by the control plane, which registered the
\* room in the same request, finds a registry entry for its room when it
\* runs
C38_ControlBroadcastFindsRoom ==
    [][ControlBroadcastRuns => Head(tasks).room \in DOMAIN rooms]_vars

\* The step applies register_room(r) and is none of join, leave and close:
\* _setup_websocket_room, or an endpoint's register_room and create_task
RegisterStep(r) ==
    /\ rooms' = RegisterRoom(rooms, r)
    /\ proto' = proto
    /\ dbwait' = dbwait
    /\ connections' = connections
    /\ \/ tasks' = tasks
       \/ /\ Len(tasks') = Len(tasks) + 1
          /\ tasks'[Len(tasks')].k = "bcast"
          /\ tasks'[Len(tasks')].room = r
          /\ tasks'[Len(tasks')].exclude = None

\* C39: a registry entry with an empty membership set appears only in a
\* step that applies register_room; join_room, leave_room and close never
\* produce one
C39_EmptyEntryOnlyByRegister ==
    [][\A r \in Rooms :
         (r \in DOMAIN rooms' /\ rooms'[r] = {})
            => \/ r \in DOMAIN rooms /\ rooms[r] = {}
               \/ RegisterStep(r)]_vars

\* r1 is registered without members after a session joined and left it
C39_Witness ==
    /\ "r1" \in DOMAIN rooms
    /\ rooms["r1"] = {}
    /\ \E s \in Sess : \E i \in 1..Len(wire[s]) :
          wire[s][i].type = "room_left" /\ wire[s][i].room = "r1"

====
